---- MODULE Spec2Model ----
(***************************************************************************)
(* The flashcard scheduler of backend/app/api/v1/endpoints/flashcards.py:  *)
(* the SM-2 review rule (review_flashcard), card creation, due selection   *)
(* and deletion, over the Flashcard and User rows of the database.         *)
(*                                                                         *)
(* easiness_factor is a Python float (an IEEE-754 double).  The model      *)
(* keeps doubles exactly: a double is a sign and a magnitude, the          *)
(* magnitude a natural number of units of 2^-58 held in three limbs        *)
(* <<hi, mid, lo>> of 20 bits (the top limb may grow to 31 bits).  Every   *)
(* double the review rule meets is a whole number of such units: 0.02, the *)
(* smallest literal, has its last bit at 2^-58.  Each arithmetic operation *)
(* computes the exact result and rounds it to 53 significant bits, ties to *)
(* even, as the hardware does.                                             *)
(***************************************************************************)
EXTENDS Integers, Sequences, FiniteSets, TLC

----------------------------------------------------------------------------
(* IEEE-754 double arithmetic *)

Base == 2^20

RECURSIVE BitLen(_)
BitLen(n) == IF n = 0 THEN 0 ELSE 1 + BitLen(n \div 2)

MagZero == <<0, 0, 0>>

\* carries of the low limbs moved up
MagNorm(m) ==
    LET c0 == m[3] \div Base
        m1 == m[2] + c0
        c1 == m1 \div Base
    IN  <<m[1] + c1, m1 % Base, m[3] % Base>>

MagLess(a, b) ==
    \/ a[1] < b[1]
    \/ a[1] = b[1] /\ a[2] < b[2]
    \/ a[1] = b[1] /\ a[2] = b[2] /\ a[3] < b[3]

MagAdd(a, b) == MagNorm(<<a[1] + b[1], a[2] + b[2], a[3] + b[3]>>)

\* a - b, for b <= a
MagSub(a, b) ==
    LET l0 == a[3] - b[3]
        b0 == IF l0 < 0 THEN 1 ELSE 0
        l1 == a[2] - b[2] - b0
        b1 == IF l1 < 0 THEN 1 ELSE 0
    IN  <<a[1] - b[1] - b1, l1 + b1 * Base, l0 + b0 * Base>>

\* m * k, for a natural number k
MagMul(m, k) == MagNorm(<<m[1] * k, m[2] * k, m[3] * k>>)

MagBits(m) ==
    IF m[1] > 0 THEN 40 + BitLen(m[1])
    ELSE IF m[2] > 0 THEN 20 + BitLen(m[2])
    ELSE BitLen(m[3])

\* round to nearest, ties to even, at 53 significant bits
MagRound(m) ==
    LET sh == MagBits(m) - 53
    IN  IF sh <= 0 THEN m
        ELSE LET p    == 2^sh
                 r    == m[3] % p
                 odd  == (m[3] \div p) % 2 = 1
                 up   == 2 * r > p \/ (2 * r = p /\ odd)
             IN  MagNorm(<<m[1], m[2], m[3] - r + (IF up THEN p ELSE 0)>>)

FNeg(x) == [neg |-> ~x.neg, mag |-> x.mag]

\* float(k) for a Python int k
FromInt(k) ==
    [neg |-> k < 0, mag |-> <<(IF k < 0 THEN -k ELSE k) * 2^18, 0, 0>>]

\* x + y
FAdd(x, y) ==
    IF x.neg = y.neg
    THEN [neg |-> x.neg, mag |-> MagRound(MagAdd(x.mag, y.mag))]
    ELSE IF MagLess(x.mag, y.mag)
         THEN [neg |-> y.neg, mag |-> MagRound(MagSub(y.mag, x.mag))]
         ELSE [neg |-> x.neg /\ x.mag # y.mag,
               mag |-> MagRound(MagSub(x.mag, y.mag))]

\* x - y
FSub(x, y) == FAdd(x, FNeg(y))

\* k * x for a Python int k: k becomes a double (exactly), then one product
FMulInt(k, x) ==
    [neg |-> (k < 0) # x.neg,
     mag |-> MagRound(MagMul(x.mag, IF k < 0 THEN -k ELSE k))]

\* x < y
FLess(x, y) ==
    IF x.mag = MagZero /\ y.mag = MagZero THEN FALSE
    ELSE IF x.neg # y.neg THEN x.neg
    ELSE IF x.neg THEN MagLess(y.mag, x.mag)
    ELSE MagLess(x.mag, y.mag)

\* Python's max(a, b): b when b > a, else a
FMax(a, b) == IF FLess(a, b) THEN b ELSE a

\* Python's int(x): truncation toward zero
FInt(x) == IF x.neg THEN -(x.mag[1] \div 2^18) ELSE x.mag[1] \div 2^18

\* Products too large for three limbs: five limbs, the lowest first.
WideNorm(w) ==
    LET a2 == w[2] + w[1] \div Base
        a3 == w[3] + a2 \div Base
        a4 == w[4] + a3 \div Base
    IN  <<w[1] % Base, a2 % Base, a3 % Base, a4 % Base, w[5] + a4 \div Base>>

WideAdd(a, b) == WideNorm([i \in 1 .. 5 |-> a[i] + b[i]])

\* m * k for k < 2^10
WideScale(m, k) == WideNorm(<<m[3] * k, m[2] * k, m[1] * k, 0, 0>>)

RECURSIVE WideMul(_, _)
WideMul(m, k) ==
    IF k < 2^10 THEN WideScale(m, k)
    ELSE LET high == WideMul(m, k \div 2^10)
         IN  WideAdd(WideNorm([i \in 1 .. 5 |-> high[i] * 2^10]),
                     WideScale(m, k % 2^10))

WideBits(w) ==
    IF w[5] > 0 THEN 80 + BitLen(w[5])
    ELSE IF w[4] > 0 THEN 60 + BitLen(w[4])
    ELSE IF w[3] > 0 THEN 40 + BitLen(w[3])
    ELSE IF w[2] > 0 THEN 20 + BitLen(w[2])
    ELSE BitLen(w[1])

\* Python's int(k * x) for an int k >= 0 and a double x >= 0: the product
\* rounded to 53 significant bits, then truncated. The rounding reaches
\* the next whole number exactly when the product is within half a unit in
\* the last place below it.
FIntMul(k, x) ==
    LET p  == WideMul(x.mag, k)
        sh == WideBits(p) - 53
        r  == IF sh >= 1
              THEN WideAdd(p, [i \in 1 .. 5 |->
                                 IF i = (sh - 1) \div 20 + 1
                                 THEN 2^((sh - 1) % 20) ELSE 0])
              ELSE p
    IN  r[5] * 2^22 + r[4] * 4 + r[3] \div 2^18

\* the doubles the source's literals denote
F0_02 == [neg |-> FALSE, mag |-> <<5242, 922746, 922747>>]
F0_08 == [neg |-> FALSE, mag |-> <<20971, 545259, 545260>>]
F0_1  == [neg |-> FALSE, mag |-> <<26214, 419430, 419432>>]
F1_3  == [neg |-> FALSE, mag |-> <<340787, 209715, 209728>>]
F2_5  == [neg |-> FALSE, mag |-> <<655360, 0, 0>>]

----------------------------------------------------------------------------
(* Bounds and input sets *)

MaxReviews == 4      \* reviews stored on one card
MaxClock   == 1      \* last tick of the clock

Users   == {"u1", "u2"}
CardIds == {1}

\* FlashcardReview.quality is an int with no validator: any int is accepted.
\* The ratings 0..5 and the nearest int on each side.
Quality == -1 .. 6

\* clock ticks in timedelta(days=1)
Day == 4

None    == <<>>
Some(x) == <<x>>

VARIABLES
    flashcards,    \* the flashcards table: id -> row
    users,         \* the users table: id -> [points, last_activity]
    issued,        \* the ids uuid4 has handed out
    now,           \* the clock datetime.utcnow() reads
    last,          \* the last request served: what the handler was asked, the
                   \* status it answered, the quality and the row it read
    requests       \* the requests being served step by step: each one's
                   \* position and what its session holds

vars == <<flashcards, users, issued, now, last, requests>>

----------------------------------------------------------------------------
(* Flashcard: Column defaults *)

NewFlashcard(user, t) ==
    [user_id         |-> user,
     easiness_factor |-> F2_5,
     interval        |-> 1,
     repetitions     |-> 0,
     next_review     |-> t,
     total_reviews   |-> 0,
     correct_reviews |-> 0,
     last_reviewed   |-> None]

NewUser == [points |-> 0, last_activity |-> 0]

Init ==
    /\ flashcards = << >>
    /\ users = [u \in Users |-> NewUser]
    /\ issued = {}
    /\ now = 0
    /\ last = [op |-> "none", id |-> 0, status |-> 0, quality |-> None,
               before |-> None]
    /\ requests = << >>

----------------------------------------------------------------------------
(* review_flashcard: the SM-2 rule *)

\* round() where the source has int()
NextIntervalRounded(card, quality) ==
    IF quality >= 3
    THEN IF card.repetitions = 0 THEN 1
         ELSE IF card.repetitions = 1 THEN 6
         ELSE FInt(FAdd(FMulInt(card.interval, card.easiness_factor),
                        [neg |-> FALSE, mag |-> <<2^17, 0, 0>>]))
    ELSE 1

\* the first-review branch missing: the formula from the start
NextIntervalNoFirst(card, quality) ==
    IF quality >= 3
    THEN IF card.repetitions = 1 THEN 6
         ELSE FInt(FMulInt(card.interval, card.easiness_factor))
    ELSE 1

\* the second-review branch missing
NextIntervalNoSecond(card, quality) ==
    IF quality >= 3
    THEN IF card.repetitions = 0 THEN 1
         ELSE FInt(FMulInt(card.interval, card.easiness_factor))
    ELSE 1

\* lines 99-113: the interval, from the row as loaded
NextInterval(card, quality) ==
    IF quality >= 3
    THEN IF card.repetitions = 0 THEN 1
         ELSE IF card.repetitions = 1 THEN 6
         ELSE FIntMul(card.interval, card.easiness_factor)
    ELSE 1

\* the reset on failure forgotten
NextRepetitionsKept(card, quality) ==
    IF quality >= 3 THEN card.repetitions + 1 ELSE card.repetitions

NextRepetitions(card, quality) ==
    IF quality >= 3 THEN card.repetitions + 1 ELSE 0

\* quality 3 taken for a failure
NextCorrectStrict(card, quality) ==
    IF quality > 3 THEN card.correct_reviews + 1 ELSE card.correct_reviews

NextCorrect(card, quality) ==
    IF quality >= 3 THEN card.correct_reviews + 1 ELSE card.correct_reviews

\* the quadratic term dropped
EasinessDeltaLinear(quality) ==
    FSub(F0_1, FMulInt(5 - quality, F0_08))

\* line 118: 0.1 - (5 - quality) * (0.08 + (5 - quality) * 0.02)
EasinessDelta(quality) ==
    FSub(F0_1,
         FMulInt(5 - quality, FAdd(F0_08, FMulInt(5 - quality, F0_02))))

\* the clamp forgotten
NextEasinessUnclamped(ef, quality) == FAdd(ef, EasinessDelta(quality))

\* a failure that puts the easiness factor back to its default
NextEasinessResetOnFailure(ef, quality) ==
    IF quality < 3 THEN F2_5 ELSE FMax(F1_3, FAdd(ef, EasinessDelta(quality)))

\* lines 116-119
NextEasiness(ef, quality) == FMax(F1_3, FAdd(ef, EasinessDelta(quality)))

\* total_reviews += 1 indented into the else branch
ReviewedCountOnFailure(card, quality, t1, t2) ==
    [card EXCEPT
        !.interval        = NextInterval(card, quality),
        !.repetitions     = NextRepetitions(card, quality),
        !.correct_reviews = NextCorrect(card, quality),
        !.easiness_factor = NextEasiness(card.easiness_factor, quality),
        !.next_review     = t1 + NextInterval(card, quality) * Day,
        !.last_reviewed   = Some(t2),
        !.total_reviews   = IF quality >= 3 THEN card.total_reviews
                            ELSE card.total_reviews + 1]

\* A next review counted from the second reading of the clock.
ReviewedFromSecondRead(card, quality, t1, t2) ==
    [card EXCEPT
        !.interval        = NextInterval(card, quality),
        !.repetitions     = NextRepetitions(card, quality),
        !.correct_reviews = NextCorrect(card, quality),
        !.easiness_factor = NextEasiness(card.easiness_factor, quality),
        !.next_review     = t2 + NextInterval(card, quality) * Day,
        !.last_reviewed   = Some(t2),
        !.total_reviews   = card.total_reviews + 1]

\* lines 99-124; t1 and t2 are the clock as read on lines 122 and 123
Reviewed(card, quality, t1, t2) ==
    [card EXCEPT
        !.interval        = NextInterval(card, quality),
        !.repetitions     = NextRepetitions(card, quality),
        !.correct_reviews = NextCorrect(card, quality),
        !.easiness_factor = NextEasiness(card.easiness_factor, quality),
        !.next_review     = t1 + NextInterval(card, quality) * Day,
        !.last_reviewed   = Some(t2),
        !.total_reviews   = card.total_reviews + 1]

\* A reward that does not look at the quality.
PointsFlat(quality) == 5

\* line 130
Points(quality) == IF quality >= 3 THEN 5 ELSE 2

\* A lookup by id alone, whoever owns the row.
FoundAnyOwner(user, id) == id \in DOMAIN flashcards

\* lines 82-88: the row with this id that belongs to the requester
Found(user, id) == id \in DOMAIN flashcards /\ flashcards[id].user_id = user

\* line 122: a datetime past datetime.max, the end of the year 9999, does
\* not exist, and the sum raises OverflowError. The days from the instant 0
\* of the model's clock to datetime.max:
DaysToMaxDate == 2912000

\* the sum of line 122 exists, t being the clock as read there
DateInRange(card, quality, t) ==
    t + NextInterval(card, quality) * Day <= DaysToMaxDate * Day

\* t2 and t3 are the clock as read on lines 123 and 131; line 122 reads now.
\* The exception of line 122 leaves the handler before any commit: get_db
\* rolls back, and the answer is a server error.
\* An UPDATE that forgets the row's id: every card of the user is rescheduled.
ReviewFlashcardAllCards(user, id, quality, t2, t3) ==
    IF ~Found(user, id)
    THEN /\ last' = [op |-> "review", id |-> id, status |-> 404,
                     quality |-> None, before |-> None]
         /\ UNCHANGED <<flashcards, users, issued, now, requests>>
    ELSE IF ~DateInRange(flashcards[id], quality, now)
    THEN /\ last' = [op |-> "review", id |-> id, status |-> 500,
                     quality |-> Some(quality),
                     before |-> Some(flashcards[id])]
         /\ UNCHANGED <<flashcards, users, issued, now, requests>>
    ELSE /\ now <= t2 /\ t2 <= t3
         /\ flashcards' = [i \in DOMAIN flashcards |->
                             IF flashcards[i].user_id = user
                             THEN Reviewed(flashcards[i], quality, now, t2)
                             ELSE flashcards[i]]
         /\ users' = [users EXCEPT
                        ![user].points = @ + Points(quality),
                        ![user].last_activity = t3]
         /\ now' = t3
         /\ last' = [op |-> "review", id |-> id, status |-> 200,
                     quality |-> Some(quality),
                     before |-> Some(flashcards[id])]
         /\ UNCHANGED <<issued, requests>>

ReviewFlashcard(user, id, quality, t2, t3) ==
    IF ~Found(user, id)
    THEN /\ last' = [op |-> "review", id |-> id, status |-> 404,
                     quality |-> None, before |-> None]
         /\ UNCHANGED <<flashcards, users, issued, now, requests>>
    ELSE IF ~DateInRange(flashcards[id], quality, now)
    THEN /\ last' = [op |-> "review", id |-> id, status |-> 500,
                     quality |-> Some(quality),
                     before |-> Some(flashcards[id])]
         /\ UNCHANGED <<flashcards, users, issued, now, requests>>
    ELSE /\ now <= t2 /\ t2 <= t3
         /\ flashcards' = [flashcards EXCEPT
                             ![id] = Reviewed(flashcards[id], quality, now, t2)]
         /\ users' = [users EXCEPT
                        ![user].points = @ + Points(quality),
                        ![user].last_activity = t3]
         /\ now' = t3
         /\ last' = [op |-> "review", id |-> id, status |-> 200,
                     quality |-> Some(quality),
                     before |-> Some(flashcards[id])]
         /\ UNCHANGED <<issued, requests>>

----------------------------------------------------------------------------
(* create_flashcard, delete_flashcard, the clock *)

\* id is the uuid4 drawn for the row: one never drawn before
CreateFlashcard(user, id) ==
    /\ id \notin issued
    /\ flashcards' = flashcards @@ (id :> NewFlashcard(user, now))
    /\ issued' = issued \cup {id}
    /\ last' = [op |-> "create", id |-> id, status |-> 200,
                quality |-> None, before |-> None]
    /\ UNCHANGED <<users, now, requests>>

DeleteFlashcard(user, id) ==
    IF ~Found(user, id)
    THEN /\ last' = [op |-> "delete", id |-> id, status |-> 404,
                     quality |-> None, before |-> None]
         /\ UNCHANGED <<flashcards, users, issued, now, requests>>
    ELSE /\ flashcards' = [i \in DOMAIN flashcards \ {id} |-> flashcards[i]]
         /\ last' = [op |-> "delete", id |-> id, status |-> 200,
                     quality |-> None, before |-> Some(flashcards[id])]
         /\ UNCHANGED <<users, issued, now, requests>>

Tick ==
    /\ now < MaxClock
    /\ now' = now + 1
    /\ UNCHANGED <<flashcards, users, issued, last, requests>>

\* The model stops at a number of reviews per card: a review that finds the
\* card finds it with fewer than n reviews.
Below(user, id, n) == Found(user, id) => flashcards[id].total_reviews < n

\* Every request is served within one tick of the clock.
Next ==
    \/ \E u \in Users, id \in CardIds : CreateFlashcard(u, id)
    \/ \E u \in Users, id \in CardIds, q \in Quality :
           Below(u, id, MaxReviews) /\ ReviewFlashcard(u, id, q, now, now)
    \/ \E u \in Users, id \in CardIds : DeleteFlashcard(u, id)
    \/ Tick

Spec == Init /\ [][Next]_vars

\* The clock may tick between the reads of one request.
JitterQuality == {0, 3, 5}

NextJitter ==
    \/ \E u \in Users, id \in CardIds : CreateFlashcard(u, id)
    \/ \E u \in Users, id \in CardIds, q \in JitterQuality :
           \E t2 \in now .. now + 1 : \E t3 \in t2 .. t2 + 1 :
               /\ Below(u, id, MaxReviews) /\ t3 <= MaxClock
               /\ ReviewFlashcard(u, id, q, t2, t3)
    \/ \E u \in Users, id \in CardIds : DeleteFlashcard(u, id)
    \/ Tick

SpecJitter == Init /\ [][NextJitter]_vars

----------------------------------------------------------------------------
(* get_due_flashcards: SELECT ... WHERE user_id = :user AND              *)
(* next_review <= utcnow() ORDER BY next_review                           *)

\* A filter that leaves out the rows due at this very instant.
DueIdsStrict(user, t) ==
    {id \in DOMAIN flashcards :
        flashcards[id].user_id = user /\ flashcards[id].next_review < t}

\* A filter that forgets whose rows they are.
DueIdsAnyUser(user, t) ==
    {id \in DOMAIN flashcards : flashcards[id].next_review <= t}

\* The rows of the WHERE clause, t being the clock as the query reads it.
DueIds(user, t) ==
    {id \in DOMAIN flashcards :
        flashcards[id].user_id = user /\ flashcards[id].next_review <= t}

\* The arrangements of a set of rows, each row once.
Arrangements(ids) ==
    {s \in [1 .. Cardinality(ids) -> ids] :
        \A i, j \in DOMAIN s : i # j => s[i] # s[j]}

\* A query with no ORDER BY.
OrderedNot(ids) == Arrangements(ids)

\* ORDER BY next_review has no second key: the rows come with next_review
\* never decreasing, and rows of equal next_review in whichever order the
\* database finds them.
Ordered(ids) ==
    {s \in Arrangements(ids) :
        \A i, j \in DOMAIN s :
            i < j => flashcards[s[i]].next_review <= flashcards[s[j]].next_review}

\* result is the list the database answers with
GetDueFlashcards(user, result) ==
    /\ result \in Ordered(DueIds(user, now))
    /\ last' = [op |-> "due", id |-> 0, status |-> 200, quality |-> None,
                before |-> None, user |-> user, at |-> now,
                result |-> result]
    /\ UNCHANGED <<flashcards, users, issued, now, requests>>

\* Time passes until the instant t.
Elapse(t) ==
    /\ now < t
    /\ now' = t
    /\ UNCHANGED <<flashcards, users, issued, last, requests>>

\* Several cards, each reviewed a few times, and a clock that reaches the
\* instants at which reviewed cards fall due.
DueCardIds == {1, 2, 3}
DueQuality == {4}
MaxDueReviews == 1
MaxDueDays == 1
DueInstants == {d * Day : d \in 1 .. MaxDueDays}

NextDue ==
    \/ \E u \in Users, id \in DueCardIds : CreateFlashcard(u, id)
    \/ \E id \in DOMAIN flashcards, q \in DueQuality :
           /\ Below(flashcards[id].user_id, id, MaxDueReviews)
           /\ ReviewFlashcard(flashcards[id].user_id, id, q, now, now)
    \/ \E u \in Users : \E result \in Ordered(DueIds(u, now)) :
           GetDueFlashcards(u, result)
    \/ \E t \in DueInstants : Elapse(t)

SpecDue == Init /\ [][NextDue]_vars

----------------------------------------------------------------------------
(* get_flashcards, and every endpoint of the router together *)

\* The rows of user.
OwnedIds(user) == {id \in DOMAIN flashcards : flashcards[id].user_id = user}

\* rows are the rows the WHERE clause keeps: the cards of the user, and with
\* a course_id those of that course only; result is the list the database
\* answers with, in no stated order.
GetFlashcards(user, rows, result) ==
    /\ rows \subseteq OwnedIds(user)
    /\ result \in Arrangements(rows)
    /\ last' = [op |-> "list", id |-> 0, status |-> 200, quality |-> None,
                before |-> None, user |-> user, at |-> now,
                result |-> result]
    /\ UNCHANGED <<flashcards, users, issued, now, requests>>

\* Two cards, every endpoint, a clock that the handler of a
\* review reads a second time one instant later or not.
FrameCardIds == {1, 2}
FrameQuality == {1, 4}
MaxFrameReviews == 1
FrameInstants == {Day}

NextFrame ==
    \/ \E u \in Users, id \in FrameCardIds : CreateFlashcard(u, id)
    \/ \E id \in DOMAIN flashcards, q \in FrameQuality :
       \E t2 \in now .. now + 1 :
           /\ Below(flashcards[id].user_id, id, MaxFrameReviews)
           /\ ReviewFlashcard(flashcards[id].user_id, id, q, t2, t2)
    \/ \E id \in DOMAIN flashcards :
           DeleteFlashcard(flashcards[id].user_id, id)
    \/ \E u \in Users : \E result \in Ordered(DueIds(u, now)) :
           GetDueFlashcards(u, result)
    \/ \E u \in Users : \E rows \in SUBSET OwnedIds(u) :
       \E result \in Arrangements(rows) : GetFlashcards(u, rows, result)
    \/ \E t \in FrameInstants : Elapse(t)

SpecFrame == Init /\ [][NextFrame]_vars

----------------------------------------------------------------------------
(* review_flashcard, one database operation at a time. Each request has   *)
(* its own session (get_db); the engine sets no isolation level, so the   *)
(* transactions are READ COMMITTED; no query locks the row it reads.      *)

\* The UPDATE a session flushes sets the columns whose value it changed
\* since it loaded the row, and leaves the others as the table has them.
Written(current, loaded, mine) ==
    [f \in DOMAIN mine |->
        IF mine[f] = loaded[f] THEN current[f] ELSE mine[f]]

\* The request arrives: current_user is loaded, the session holds its points
BeginReview(r, user, id, quality) ==
    /\ r \notin DOMAIN requests
    /\ requests' = requests @@
           (r :> [pc |-> "select", user |-> user, id |-> id,
                  quality |-> quality, points |-> users[user].points,
                  loaded |-> None, status |-> 0])
    /\ UNCHANGED <<flashcards, users, issued, now, last>>

\* lines 82-94
SelectFlashcard(r) ==
    /\ r \in DOMAIN requests
    /\ requests[r].pc = "select"
    /\ requests' = [requests EXCEPT ![r] =
           IF Found(@.user, @.id)
           THEN [@ EXCEPT !.pc = "update",
                          !.loaded = Some(flashcards[requests[r].id])]
           ELSE [@ EXCEPT !.pc = "done", !.status = 404]]
    /\ UNCHANGED <<flashcards, users, issued, now, last>>

\* lines 96-126: the update is computed on the row as loaded and committed;
\* an UPDATE that matches no row fails the request, and so does a date out
\* of range on line 122. t2 is the clock as read on line 123.
CommitFlashcard(r, t2) ==
    /\ r \in DOMAIN requests
    /\ requests[r].pc = "update"
    /\ now <= t2
    /\ LET id     == requests[r].id
           loaded == requests[r].loaded[1]
           mine   == Reviewed(loaded, requests[r].quality, now, t2)
       IN  IF id \in DOMAIN flashcards
                 /\ DateInRange(loaded, requests[r].quality, now)
           THEN /\ flashcards' = [flashcards EXCEPT
                       ![id] = Written(flashcards[id], loaded, mine)]
                /\ requests' = [requests EXCEPT ![r].pc = "award"]
           ELSE /\ requests' = [requests EXCEPT ![r].pc = "done",
                                                ![r].status = 500]
                /\ UNCHANGED flashcards
    /\ now' = t2
    /\ UNCHANGED <<users, issued, last>>

\* lines 127-132: the row is read again for the answer, and the points the
\* session holds, raised, are committed. t3 is the clock as read on line 131.
AwardPoints(r, t3) ==
    /\ r \in DOMAIN requests
    /\ requests[r].pc = "award"
    /\ now <= t3
    /\ IF requests[r].id \in DOMAIN flashcards
       THEN /\ users' = [users EXCEPT
                   ![requests[r].user].points =
                       requests[r].points + Points(requests[r].quality),
                   ![requests[r].user].last_activity = t3]
            /\ requests' = [requests EXCEPT ![r].pc = "done",
                                            ![r].status = 200]
       ELSE /\ requests' = [requests EXCEPT ![r].pc = "done",
                                            ![r].status = 500]
            /\ UNCHANGED users
    /\ now' = t3
    /\ UNCHANGED <<flashcards, issued, last>>

\* Two requests in flight over the cards of one table.
Requests == {1, 2}
ConcurrentQuality == {0, 4, 5}

NextConcurrent ==
    \/ \E u \in Users, id \in CardIds : CreateFlashcard(u, id)
    \/ \E r \in Requests, u \in Users, id \in CardIds,
          q \in ConcurrentQuality : BeginReview(r, u, id, q)
    \/ \E r \in Requests : SelectFlashcard(r)
    \/ \E r \in Requests : CommitFlashcard(r, now)
    \/ \E r \in Requests : AwardPoints(r, now)
    \/ Tick

SpecConcurrent == Init /\ [][NextConcurrent]_vars

\* lines 127-132 fail: the connection is lost or the worker stops between
\* the commit of line 126 and the commit of line 132. get_db rolls back
\* what is not committed: the card stays as committed, the points as they
\* were.
AbortReview(r) ==
    /\ r \in DOMAIN requests
    /\ requests[r].pc = "award"
    /\ requests' = [requests EXCEPT ![r].pc = "done", ![r].status = 500]
    /\ UNCHANGED <<flashcards, users, issued, now, last>>

\* Two requests in flight over two cards, each sent by the owner of its card.
ParallelCardIds == {1, 2}
ParallelQuality == {0, 4}

NextParallel ==
    \/ \E u \in Users, id \in ParallelCardIds : CreateFlashcard(u, id)
    \/ \E r \in Requests, id \in DOMAIN flashcards, q \in ParallelQuality :
           BeginReview(r, flashcards[id].user_id, id, q)
    \/ \E r \in Requests : SelectFlashcard(r)
    \/ \E r \in Requests : CommitFlashcard(r, now)
    \/ \E r \in Requests : AwardPoints(r, now)
    \/ \E r \in Requests : AbortReview(r)

SpecParallel == Init /\ [][NextParallel]_vars

\* One card with reviews served one after the other, and then two requests
\* of its owner in flight together.
OverlapQuality == {0, 4}
MaxOverlapReviews == 1

NextOverlap ==
    \/ \E u \in Users, id \in CardIds : CreateFlashcard(u, id)
    \/ \E id \in DOMAIN flashcards, q \in OverlapQuality :
           /\ DOMAIN requests = {}
           /\ Below(flashcards[id].user_id, id, MaxOverlapReviews)
           /\ ReviewFlashcard(flashcards[id].user_id, id, q, now, now)
    \/ \E r \in Requests, id \in DOMAIN flashcards, q \in OverlapQuality :
           BeginReview(r, flashcards[id].user_id, id, q)
    \/ \E r \in Requests : SelectFlashcard(r)
    \/ \E r \in Requests : CommitFlashcard(r, now)
    \/ \E r \in Requests : AwardPoints(r, now)

SpecOverlap == Init /\ [][NextOverlap]_vars

----------------------------------------------------------------------------
(* One card followed through many reviews by its owner, the clock passing *)
(* from one due instant to the next.                                      *)

DeepQuality == {2, 5}
MaxDeepReviews == 6

Owner(id) == flashcards[id].user_id

NextDeep ==
    \/ \E u \in Users, id \in CardIds : CreateFlashcard(u, id)
    \/ \E id \in DOMAIN flashcards, q \in DeepQuality :
           /\ Below(Owner(id), id, MaxDeepReviews)
           /\ ReviewFlashcard(Owner(id), id, q, now, now)
    \/ \E id \in DOMAIN flashcards : DeleteFlashcard(Owner(id), id)
    \/ \E id \in DOMAIN flashcards : Elapse(flashcards[id].next_review)

SpecDeep == Init /\ [][NextDeep]_vars

\* The clock keeps advancing: an instant at which a card falls due does not
\* stay ahead for ever.
Advance == \E id \in DOMAIN flashcards : Elapse(flashcards[id].next_review)

\* One card through the reviews that move its easiness factor up and down.
EaseQuality == {2, 3, 5}
MaxEaseReviews == 9

NextEase ==
    \/ \E u \in Users, id \in CardIds : CreateFlashcard(u, id)
    \/ \E id \in DOMAIN flashcards, q \in EaseQuality :
           /\ Below(Owner(id), id, MaxEaseReviews)
           /\ ReviewFlashcard(Owner(id), id, q, now, now)

SpecEase == Init /\ [][NextEase]_vars

\* One card reviewed with quality 5 again and again.
LongQuality == {5}
MaxLongReviews == 14

NextLong ==
    \/ \E u \in Users, id \in CardIds : CreateFlashcard(u, id)
    \/ \E id \in DOMAIN flashcards, q \in LongQuality :
           /\ Below(Owner(id), id, MaxLongReviews)
           /\ ReviewFlashcard(Owner(id), id, q, now, now)
    \/ Advance

SpecLong == Init /\ [][NextLong]_vars /\ WF_vars(Advance)

----------------------------------------------------------------------------
(* The last request, when it was a review that found its card *)

LastReview == last.op = "review" /\ last.status = 200
LastQ      == last.quality[1]
Before     == last.before[1]
After      == flashcards[last.id]

\* The last request, when it asked for the due cards: who asked, the clock
\* the query read, and the rows answered, as a set
LastDue    == last.op = "due"
DueResult  == {last.result[i] : i \in DOMAIN last.result}

\* The step of a review that found its card, and the user who asked
ReviewStep == last'.op = "review" /\ last'.status = 200 /\ last' # last
Reviewer   == last'.before[1].user_id

\* The step of a create
CreateStep == last'.op = "create" /\ last' # last

----------------------------------------------------------------------------
(* C1: a review whose quality is outside 0..5 is rejected before anything  *)
(* changes: the answer is an error, and neither the flashcards table nor   *)
(* the users table (the points) differs after the request.                 *)

C1_InvalidQualityRejected ==
    [][(/\ last'.op = "review"
        /\ last' # last
        /\ last'.quality # None
        /\ last'.quality[1] \notin 0 .. 5)
       => (/\ last'.status # 200
           /\ flashcards' = flashcards
           /\ users' = users)]_vars

----------------------------------------------------------------------------
(* C2: the easiness factor of every card is at least 1.3, and a card at    *)
(* the floor that is reviewed with quality 0 stays at exactly 1.3.         *)

C2_EasinessFloor ==
    /\ \A id \in DOMAIN flashcards :
           ~FLess(flashcards[id].easiness_factor, F1_3)
    /\ (LastReview /\ LastQ = 0 /\ Before.easiness_factor = F1_3)
           => After.easiness_factor = F1_3

C2_Witness ==
    /\ LastReview /\ LastQ = 0
    /\ Before.easiness_factor = F1_3
    /\ After.easiness_factor = F1_3

(* C3: a review with quality 0, 1 or 2 sets repetitions to 0 and interval  *)
(* to 1, whatever they were.                                               *)

C3_FailureResets ==
    (LastReview /\ LastQ \in 0 .. 2)
        => (After.repetitions = 0 /\ After.interval = 1)

C3_Witness ==
    /\ LastReview /\ LastQ \in 0 .. 2
    /\ Before.repetitions >= 3 /\ Before.interval > 6
    /\ After.repetitions = 0 /\ After.interval = 1

(* C4: a review with quality 3, 4 or 5 of a card with repetitions = 0 sets *)
(* interval to 1 and repetitions to 1.                                     *)

C4_FirstSuccess ==
    (LastReview /\ LastQ \in 3 .. 5 /\ Before.repetitions = 0)
        => (After.interval = 1 /\ After.repetitions = 1)

C4_Witness ==
    /\ LastReview /\ LastQ \in 3 .. 5
    /\ Before.repetitions = 0 /\ Before.total_reviews = 0
    /\ After.interval = 1 /\ After.repetitions = 1

(* C5: a review with quality 3, 4 or 5 of a card with repetitions = 1 sets *)
(* interval to 6 and repetitions to 2.                                     *)

C5_SecondSuccess ==
    (LastReview /\ LastQ \in 3 .. 5 /\ Before.repetitions = 1)
        => (After.interval = 6 /\ After.repetitions = 2)

C5_Witness ==
    /\ LastReview /\ LastQ \in 3 .. 5
    /\ Before.repetitions = 1 /\ Before.interval = 1
    /\ Before.easiness_factor # F2_5
    /\ After.interval = 6 /\ After.repetitions = 2

----------------------------------------------------------------------------
(* Exact arithmetic for the statements about interval and easiness: whole  *)
(* numbers and products as magnitudes in units of 2^-58, nothing rounded.  *)

Whole(n) == <<n * 2^18, 0, 0>>
Half     == <<2^17, 0, 0>>

\* 2^-30: more than a double below 2^13 moves when it is rounded
Slack    == <<0, 2^8, 0>>

\* interval * easiness_factor of a row, exactly
Product(card) == MagMul(card.easiness_factor.mag, card.interval)

MagDist(a, b) == IF MagLess(a, b) THEN MagSub(b, a) ELSE MagSub(a, b)

(* C6 as claimed: a review with quality >= 3 of a card with repetitions    *)
(* >= 2 sets interval to the product of the old interval and the old       *)
(* easiness rounded to the nearest whole number (at most a half away from  *)
(* it), and adds 1 to repetitions.                                         *)

C6_RoundedToNearest ==
    (LastReview /\ LastQ >= 3 /\ Before.repetitions >= 2)
        => /\ ~MagLess(MagAdd(Half, Slack),
                       MagDist(Whole(After.interval), Product(Before)))
           /\ After.repetitions = Before.repetitions + 1

(* C6 as amended: the interval is that product truncated to a whole number *)
(* (Python's int() of the double product): the product is below interval   *)
(* + 1 and, but for the rounding of the double product, not below interval.*)

C6_Truncated ==
    (LastReview /\ LastQ >= 3 /\ Before.repetitions >= 2)
        => /\ MagLess(Product(Before), Whole(After.interval + 1))
           /\ ~MagLess(MagAdd(Product(Before), Slack), Whole(After.interval))
           /\ After.repetitions = Before.repetitions + 1

\* 6 * 2.6 = 15.6 becomes 15
C6_Witness ==
    /\ LastReview /\ LastQ >= 3 /\ Before.repetitions >= 2
    /\ MagLess(MagAdd(Whole(After.interval), Half), Product(Before))
    /\ After.repetitions = Before.repetitions + 1

(* C7: on every review with quality q in 0..5 the new easiness is          *)
(* max(1.3, old + d), d = +0.10, 0, -0.14, -0.32, -0.54, -0.80 for q = 5,  *)
(* 4, 3, 2, 1, 0, clamped after the sum: in hundredths, to within the      *)
(* rounding of the doubles (2^-40).                                        *)

DeltaHundredths(q) ==
    CASE q = 5 -> 10
      [] q = 4 -> 0
      [] q = 3 -> -14
      [] q = 2 -> -32
      [] q = 1 -> -54
      [] q = 0 -> -80

\* 100 * max(1.3, ef + d/100)
ExpectedHundredths(ef, q) ==
    LET d == DeltaHundredths(q)
        t == IF d >= 0 THEN MagAdd(MagMul(ef.mag, 100), Whole(d))
             ELSE MagSub(MagMul(ef.mag, 100), Whole(-d))
    IN  IF MagLess(t, Whole(130)) THEN Whole(130) ELSE t

C7_EasinessFormula ==
    (LastReview /\ LastQ \in 0 .. 5)
        => /\ ~After.easiness_factor.neg
           /\ ~MagLess(<<0, 25, 0>>,
                       MagDist(MagMul(After.easiness_factor.mag, 100),
                               ExpectedHundredths(Before.easiness_factor, LastQ)))

\* a failed review of a card in the ladder, the sum above the floor
C7_Witness ==
    /\ LastReview /\ LastQ = 2
    /\ Before.repetitions >= 1
    /\ FLess(F1_3, After.easiness_factor)
    /\ FLess(After.easiness_factor, Before.easiness_factor)

(* C8: every review that finds its card adds exactly 1 to total_reviews,   *)
(* and adds exactly 1 to correct_reviews when quality >= 3 and nothing     *)
(* otherwise; no step lowers either counter of a card.                     *)

C8_Counters ==
    [][\A id \in DOMAIN flashcards \cap DOMAIN flashcards' :
          LET c == flashcards[id]
              d == flashcards'[id]
          IN  /\ d.total_reviews >= c.total_reviews
              /\ d.correct_reviews >= c.correct_reviews
              /\ (last'.op = "review" /\ last'.status = 200 /\ last'.id = id
                    /\ last' # last)
                 => /\ d.total_reviews = c.total_reviews + 1
                    /\ d.correct_reviews =
                         c.correct_reviews
                           + (IF last'.quality[1] >= 3 THEN 1 ELSE 0)]_vars

C8_Witness ==
    /\ LastReview /\ LastQ = 3
    /\ Before.total_reviews >= 1
    /\ After.total_reviews = Before.total_reviews + 1
    /\ After.correct_reviews = Before.correct_reviews + 1

(* C9: correct_reviews <= total_reviews on every card.                     *)

C9_CorrectAtMostTotal ==
    \A id \in DOMAIN flashcards :
        flashcards[id].correct_reviews <= flashcards[id].total_reviews

C9_Witness ==
    \E id \in DOMAIN flashcards :
        /\ flashcards[id].correct_reviews >= 2
        /\ flashcards[id].correct_reviews < flashcards[id].total_reviews

(* C10: on every card that has been reviewed, next_review is last_reviewed *)
(* plus interval days.                                                     *)

C10_NextIsLastPlusInterval ==
    \A id \in DOMAIN flashcards :
        flashcards[id].last_reviewed # None
            => flashcards[id].next_review =
                 flashcards[id].last_reviewed[1] + flashcards[id].interval * Day

----------------------------------------------------------------------------
(* C11: due selection for a learner answers exactly the learner's cards   *)
(* whose next_review is at or before the instant of the query: every such *)
(* card is in the answer, once, with no cap; no card due later and no     *)
(* card of another learner is in it; and when nothing is due the answer   *)
(* is the empty list, not an error.                                       *)

C11_DueExactly ==
    LastDue =>
        /\ last.status = 200
        /\ \A id \in DOMAIN flashcards :
               id \in DueResult <=>
                   /\ flashcards[id].user_id = last.user
                   /\ flashcards[id].next_review <= last.at
        /\ DueResult \subseteq DOMAIN flashcards
        /\ \A i, j \in DOMAIN last.result :
               i # j => last.result[i] # last.result[j]

\* An answer with a card in it, while the learner has a card due later and
\* another learner has a card that is due.
C11_Witness ==
    /\ LastDue
    /\ DueResult # {}
    /\ \E id \in DOMAIN flashcards :
           /\ flashcards[id].user_id = last.user
           /\ flashcards[id].next_review > last.at
    /\ \E id \in DOMAIN flashcards :
           /\ flashcards[id].user_id # last.user
           /\ flashcards[id].next_review <= last.at

----------------------------------------------------------------------------
(* C12: the answer of due selection is in ascending order of next_review: *)
(* of any two positions, the earlier one holds the card whose next_review *)
(* is not the later.                                                      *)

C12_Ascending ==
    LastDue =>
        \A i, j \in DOMAIN last.result :
            i < j => flashcards[last.result[i]].next_review
                         <= flashcards[last.result[j]].next_review

\* An answer with two cards of different next_review.
C12_Witness ==
    /\ LastDue
    /\ \E i, j \in DOMAIN last.result :
           flashcards[last.result[i]].next_review
               < flashcards[last.result[j]].next_review

----------------------------------------------------------------------------
(* C13: two due selections by the same learner over the same table at the *)
(* same instant answer the same list in the same order, also when several *)
(* due cards have the same next_review.                                   *)

C13_DueStable ==
    [][(/\ LastDue
        /\ last'.op = "due"
        /\ last'.user = last.user
        /\ last'.at = last.at
        /\ flashcards' = flashcards)
       => last'.result = last.result]_vars

----------------------------------------------------------------------------
(* C14: every review that finds its card adds points to the user who      *)
(* reviewed, by the quality alone: 5 when quality >= 3 and 2 when         *)
(* quality < 3, whatever the card's interval, repetitions or easiness;    *)
(* the points of the other users stay.                                    *)

C14_Points ==
    [][ReviewStep =>
          /\ users'[Reviewer].points =
                 users[Reviewer].points
                   + (IF last'.quality[1] >= 3 THEN 5 ELSE 2)
          /\ \A v \in Users \ {Reviewer} :
                 users'[v].points = users[v].points]_vars

\* A failed review of a card that had been learned once, by a user who had
\* the 5 points of one success: 7 points.
C14_Witness ==
    /\ LastReview /\ LastQ \in 0 .. 2
    /\ Before.repetitions = 1
    /\ users[Before.user_id].points = 7

----------------------------------------------------------------------------
(* C15: a review refreshes the user's last_activity only when it is a     *)
(* success (quality >= 3); a failed review (quality < 3) leaves the       *)
(* user's last_activity as it was.                                        *)

C15_ActivityOnlyOnSuccess ==
    [][(ReviewStep /\ last'.quality[1] \in 0 .. 5) =>
          IF last'.quality[1] >= 3
          THEN users'[Reviewer].last_activity = now'
          ELSE users'[Reviewer].last_activity
                   = users[Reviewer].last_activity]_vars

----------------------------------------------------------------------------
(* C16: two overlapping reviews of one card lose no update: however their *)
(* reads and commits interleave, once both are served the card's          *)
(* interval, repetitions, easiness factor, total_reviews and              *)
(* correct_reviews are those of the two reviews applied one after the     *)
(* other in one of the two orders, and total_reviews has grown by 2.      *)

Core(card) ==
    <<card.interval, card.repetitions, card.easiness_factor,
      card.total_reviews, card.correct_reviews>>

OneAfterTheOther(card, q1, q2) ==
    Core(Reviewed(Reviewed(card, q1, 0, 0), q2, 0, 0))

C16_Serialized ==
    \A a, b \in DOMAIN requests :
        (/\ a # b
         /\ requests[a].status = 200 /\ requests[b].status = 200
         /\ requests[a].id = requests[b].id
         /\ requests[a].loaded[1].total_reviews
                <= requests[b].loaded[1].total_reviews)
        => LET first == requests[a].loaded[1]
               card  == flashcards[requests[a].id]
           IN  /\ card.total_reviews = first.total_reviews + 2
               /\ Core(card) \in
                      {OneAfterTheOther(first, requests[a].quality,
                                        requests[b].quality),
                       OneAfterTheOther(first, requests[b].quality,
                                        requests[a].quality)}

----------------------------------------------------------------------------
(* C17: a flashcard is created with easiness factor 2.5, interval 1,      *)
(* repetitions 0, total_reviews 0, correct_reviews 0, no last_reviewed    *)
(* and next_review at the instant of its creation; and as long as it has  *)
(* not been reviewed, every due selection of its owner answers it.        *)

C17_NewCardDue ==
    /\ [][CreateStep =>
             flashcards'[last'.id] =
                 [user_id         |-> flashcards'[last'.id].user_id,
                  easiness_factor |-> F2_5,
                  interval        |-> 1,
                  repetitions     |-> 0,
                  next_review     |-> now,
                  total_reviews   |-> 0,
                  correct_reviews |-> 0,
                  last_reviewed   |-> None]]_vars
    /\ [](LastDue =>
             \A id \in DOMAIN flashcards :
                 (/\ flashcards[id].user_id = last.user
                  /\ flashcards[id].total_reviews = 0)
                 => id \in DueResult)

\* A due selection that answers a card created at an earlier instant and not
\* reviewed since.
C17_Witness ==
    /\ LastDue
    /\ \E id \in DueResult :
           /\ flashcards[id].total_reviews = 0
           /\ flashcards[id].last_reviewed = None
           /\ flashcards[id].next_review < last.at

----------------------------------------------------------------------------
(* C18: after a lapse the interval ladder starts over, whatever the       *)
(* interval was before the lapse: the first successful review that        *)
(* follows a review with quality < 3 sets interval 1 and repetitions 1,   *)
(* and the successful review that follows that one sets interval 6 and    *)
(* repetitions 2.                                                         *)

C18_LadderRestarts ==
    [][(/\ ReviewStep /\ last'.quality[1] >= 3
        /\ LastReview /\ last.id = last'.id)
       => LET card == flashcards'[last'.id]
          IN  /\ LastQ < 3
                    => card.interval = 1 /\ card.repetitions = 1
              /\ (/\ LastQ >= 3
                  /\ Before.repetitions = 0
                  /\ Before.total_reviews > 0)
                    => card.interval = 6 /\ card.repetitions = 2]_vars

\* Six reviews of which only the fourth failed: three successes had taken
\* the interval past 6, and the two successes after the lapse bring it to
\* 1 and then to 6.
C18_Witness ==
    /\ LastReview /\ LastQ >= 3
    /\ Before.repetitions = 1 /\ Before.interval = 1
    /\ After.repetitions = 2 /\ After.interval = 6
    /\ After.total_reviews = 6 /\ After.correct_reviews = 5

----------------------------------------------------------------------------
(* C19: no card state is terminal. In every state, a review of any card   *)
(* by its owner with each quality 0..5 is served (the lookup finds the    *)
(* card and no step of the update fails), and the update it computes has  *)
(* a next_review that is an instant of the clock; and with the clock      *)
(* advancing, a card after any number of reviews becomes due, unless it   *)
(* is deleted or reviewed again first.                                    *)

C19_NoTerminalState ==
    /\ [](\A id \in DOMAIN flashcards : \A q \in 0 .. 5 :
             /\ Found(Owner(id), id)
             /\ DateInRange(flashcards[id], q, now)
             /\ Reviewed(flashcards[id], q, now, now).next_review \in Nat)
    /\ \A id \in CardIds : \A n \in 0 .. MaxLongReviews :
           (id \in DOMAIN flashcards /\ flashcards[id].total_reviews = n)
           ~> (\/ id \notin DOMAIN flashcards
               \/ flashcards[id].next_review <= now
               \/ flashcards[id].total_reviews > n)

----------------------------------------------------------------------------
(* C20 as claimed: a review with quality < 3 never raises the easiness    *)
(* factor and never leaves it at 2.5; it leaves max(1.3, old - 0.32),     *)
(* max(1.3, old - 0.54) or max(1.3, old - 0.80) for quality 2, 1, 0. And  *)
(* from one prior state the easiness factor that results does not         *)
(* decrease as the quality increases from 0 to 5.                         *)

Lowered ==
    (LastReview /\ LastQ \in 0 .. 2)
        => /\ ~FLess(Before.easiness_factor, After.easiness_factor)
           /\ ~MagLess(<<0, 25, 0>>,
                       MagDist(MagMul(After.easiness_factor.mag, 100),
                               ExpectedHundredths(Before.easiness_factor,
                                                  LastQ)))

RisingWithQuality ==
    \A id \in DOMAIN flashcards : \A q \in 0 .. 4 :
        ~FLess(NextEasiness(flashcards[id].easiness_factor, q + 1),
               NextEasiness(flashcards[id].easiness_factor, q))

C21_EasinessRange ==
    \A id \in DOMAIN flashcards :
        /\ ~FLess(flashcards[id].easiness_factor, F1_3)
        /\ ~FLess(F2_5, flashcards[id].easiness_factor)

\* The scheduling fields of a row.
Schedule(card) ==
    <<card.easiness_factor, card.interval, card.repetitions, card.next_review,
      card.last_reviewed, card.total_reviews, card.correct_reviews>>

(* C22: the scheduling fields of a card change only in a step that is a   *)
(* served review of that card: listing, due selection, the creation or    *)
(* deletion of another card, a review of another card and the passing of  *)
(* time leave them as they are; and a review neither creates nor deletes  *)
(* a card.                                                                *)

C22_Frame ==
    [][/\ \A id \in DOMAIN flashcards \cap DOMAIN flashcards' :
              Schedule(flashcards'[id]) # Schedule(flashcards[id])
                  => /\ last' # last
                     /\ last'.op = "review"
                     /\ last'.status = 200
                     /\ last'.id = id
       /\ (last' # last /\ last'.op \in {"list", "due"})
              => flashcards' = flashcards
       /\ (last' # last /\ last'.op = "review")
              => DOMAIN flashcards' = DOMAIN flashcards]_vars

\* A review of one card has been served while another card, reviewed
\* earlier, is stored.
C22_Witness ==
    /\ last.op = "review" /\ last.status = 200
    /\ \E id \in DOMAIN flashcards :
           id # last.id /\ flashcards[id].total_reviews = 1

\* The smaller of two numbers.
Least(m, n) == IF m <= n THEN m ELSE n

(* C23: two served reviews of two different cards of one user, however    *)
(* their steps interleave, leave each card as its own review alone leaves *)
(* it, and the user's points raised by the sum of the two awards.         *)
(* Line 130 adds to the points the session read when the request came in  *)
(* and line 132 writes the sum: of two overlapping requests the later     *)
(* write replaces the earlier one.                                        *)

C23_Independent ==
    \A a, b \in DOMAIN requests :
        (/\ a # b
         /\ requests[a].status = 200 /\ requests[b].status = 200
         /\ requests[a].id # requests[b].id
         /\ requests[a].user = requests[b].user)
        => /\ Core(flashcards[requests[a].id])
                  = Core(Reviewed(requests[a].loaded[1],
                                  requests[a].quality, 0, 0))
           /\ users[requests[a].user].points
                  = Least(requests[a].points, requests[b].points)
                      + Points(requests[a].quality)
                      + Points(requests[b].quality)

\* The request of user names a card that is not stored or not theirs.
NotTheirs(user, id) ==
    id \notin DOMAIN flashcards \/ flashcards[id].user_id # user

(* C24: a review or a delete request that names an id not stored, or a    *)
(* card of another user, is answered 404 'Flashcard not found' and        *)
(* changes nothing: no card, nobody's points, nobody's last activity.     *)

C24_NotFoundChangesNothing ==
    [][\A user \in Users, id \in CardIds :
           (/\ NotTheirs(user, id)
            /\ \/ DeleteFlashcard(user, id)
               \/ \E q \in Quality : ReviewFlashcard(user, id, q, now, now))
           => /\ last'.status = 404
              /\ flashcards' = flashcards
              /\ users' = users]_vars

\* A request for the card of another user has been answered 404, the card
\* being stored with a review of its owner on it.
C24_Witness ==
    /\ last.op \in {"review", "delete"} /\ last.status = 404
    /\ last.id \in DOMAIN flashcards
    /\ flashcards[last.id].total_reviews >= 1

\* The states of a card as the ladder of repetitions tells them apart.
IsNew(card)      == card.repetitions = 0 /\ card.total_reviews = 0
IsLearning(card) == card.repetitions = 1
IsReview(card)   == card.repetitions >= 2
IsRelapsed(card) == card.repetitions = 0 /\ card.correct_reviews >= 1
IsFailed(card)   == card.repetitions = 0 /\ card.total_reviews >= 1

\* How many of the conditions hold.
HowMany(conditions) ==
    Cardinality({i \in DOMAIN conditions : conditions[i]})

C25_FourStates ==
    \A id \in DOMAIN flashcards :
        HowMany(<<IsNew(flashcards[id]), IsLearning(flashcards[id]),
                  IsReview(flashcards[id]), IsRelapsed(flashcards[id])>>) = 1

(* C25: after any sequence of reviews a card is in exactly one of four    *)
(* states: New (repetitions 0, no review yet), Learning (repetitions 1),  *)
(* Review (repetitions >= 2) and Relapsed, which is repetitions 0 after   *)
(* at least one review, successful or not. A card is New exactly as long  *)
(* as it has no last_reviewed; a review with quality < 3 leaves it        *)
(* Relapsed, a review with quality >= 3 leaves it in Learning or Review,  *)
(* one repetition above where it was.                                     *)

C25_FourStatesAnyReview ==
    /\ \A id \in DOMAIN flashcards :
           /\ HowMany(<<IsNew(flashcards[id]), IsLearning(flashcards[id]),
                        IsReview(flashcards[id]),
                        IsFailed(flashcards[id])>>) = 1
           /\ IsNew(flashcards[id]) <=> flashcards[id].last_reviewed = None
           /\ flashcards[id].repetitions <= flashcards[id].correct_reviews
    /\ (LastReview /\ LastQ < 3) => IsFailed(After)
    /\ (LastReview /\ LastQ >= 3)
           => /\ After.repetitions = Before.repetitions + 1
              /\ IsLearning(After) \/ IsReview(After)

\* A card that fails its first review: repetitions 0 with a review on it and
\* no success before.
C25_Witness ==
    /\ LastReview /\ LastQ < 3
    /\ IsFailed(After) /\ ~IsRelapsed(After)

(* C26: with qualities in 0..5 the interval of a card is always at least  *)
(* 1, and it follows the repetitions: 1 at repetitions 0, 1 at            *)
(* repetitions 1, 6 at repetitions 2, and at least 7 at repetitions 3 or  *)
(* more. Reviews served one after the other keep it so; two requests for  *)
(* one card in flight together do not: each UPDATE carries the columns    *)
(* its own session changed, and the row that results has the repetitions  *)
(* of one review and the interval of the other.                           *)

C26_IntervalLadder ==
    \A id \in DOMAIN flashcards :
        LET card == flashcards[id]
        IN  /\ card.interval >= 1
            /\ card.repetitions = 0 => card.interval = 1
            /\ card.repetitions = 1 => card.interval = 1
            /\ card.repetitions = 2 => card.interval = 6
            /\ card.repetitions >= 3 => card.interval >= 7

(* C27: a served review with quality >= 3 of a card at repetitions 2 or   *)
(* more leaves the interval strictly longer than it was, also with the    *)
(* easiness factor at its floor 1.3 (int(6 * 1.3) = 7 > 6); and a review  *)
(* that leaves the interval shorter than it was is one with quality < 3.  *)

C27_IntervalGrows ==
    /\ (LastReview /\ LastQ >= 3 /\ Before.repetitions >= 2)
           => After.interval > Before.interval
    /\ (LastReview /\ After.interval < Before.interval) => LastQ < 3

\* The interval goes from 6 to 7 with the easiness factor at the floor.
C27_Witness ==
    /\ LastReview /\ LastQ >= 3
    /\ Before.repetitions = 2 /\ Before.easiness_factor = F1_3
    /\ Before.interval = 6 /\ After.interval = 7

(* C28: a card reviewed at the instant t (the clock as line 122 reads it) *)
(* with resulting interval n gets next_review = t + n days, which is      *)
(* later than the instant at which the review ends; next_review then      *)
(* stays until the card is reviewed again; and a due selection of the     *)
(* owner at the instant at answers a reviewed card exactly when           *)
(* next_review <= at: not before t + n days, and always from then on as   *)
(* long as the card is stored and not reviewed again.                     *)

C29_StaysDue ==
    [][\A user \in Users : \A id \in DueIds(user, now) :
           (/\ now' >= now
            /\ id \in DOMAIN flashcards'
            /\ ~(ReviewStep /\ last'.id = id))
           => /\ flashcards'[id].user_id = user
              /\ flashcards'[id].next_review <= now']_vars

\* A reviewed card past its next review, still due after the review of
\* another card.
C29_Witness ==
    /\ LastReview
    /\ \E id \in DueIds(Before.user_id, now) :
           /\ id # last.id
           /\ flashcards[id].last_reviewed # None
           /\ flashcards[id].next_review < now

\* The points the reviews stored on the rows ids are worth: 5 for each
\* successful one, 2 for each failed one.
RECURSIVE Earned(_)
Earned(ids) ==
    IF ids = {} THEN 0
    ELSE LET id == CHOOSE i \in ids : TRUE
         IN  5 * flashcards[id].correct_reviews
               + 2 * (flashcards[id].total_reviews
                        - flashcards[id].correct_reviews)
               + Earned(ids \ {id})

(* C30: the card update and the award of points of one review take effect *)
(* together: whenever no review is in progress, the points of every user  *)
(* are 5 times the successful reviews stored on their cards plus 2 times  *)
(* the failed ones. The handler commits the card on line 126 and the      *)
(* points on line 132: a request that fails in between leaves the review  *)
(* stored and the points as they were.                                    *)

C30_Atomic ==
    (\A r \in DOMAIN requests : requests[r].pc = "done")
        => \A user \in Users : users[user].points = Earned(OwnedIds(user))

====
